---- MODULE Spec2Model ----
(***************************************************************************)
(* Order fulfilment pipeline of the ordering platform: the browser-side    *)
(* createOrder / updateOrderStatus / bulkUpdateStatus of the useOrders     *)
(* hook, the browser-side rate limiter (rateLimit.ts), and the database    *)
(* objects they run against (orders, order_items, rate_limit_logs,         *)
(* generate_order_number, check_rate_limit, the BEFORE UPDATE triggers).   *)
(*                                                                         *)
(* Every await of createOrder is a scheduling point: one action is one     *)
(* database statement (or one call to the delivery proxy) together with    *)
(* the browser code that runs until the next request is sent.              *)
(***************************************************************************)
EXTENDS Integers, Sequences, FiniteSets, TLC

\* ------------------------------------------------------------------ bounds

\* Number of createOrder calls that may be in flight (concurrently or one
\* after the other).
NumSubs == 2

Subs == 1..NumSubs

\* Number of mounted useOrders hooks (order manager screens) that listen to
\* the realtime channel.
NumObservers == 2

Observers == 1..NumObservers

\* Number of committed changes the realtime channel announces before the
\* changes stop.
MaxMutations == 2

\* Number of database connections that can run check_rate_limit at once.
NumRpcs == 2

Rpcs == 1..NumRpcs

\* Number of submissions fed to the rate limiters.
MaxSubmissions == 3

\* Number of requests the delivery proxy serves.
NumInvocations == 2

Invocations == 1..NumInvocations

\* Session identifiers getClientIP can hand out (two browser sessions).
Idents == {"session_1", "session_2"}

\* The instants the clock can show, in milliseconds since the first instant.
\* All lie in one calendar day.  5000 is "5 s later", 29999 the last
\* millisecond of a 30 s cooldown that started at 0, 30000 its expiry instant.
Instants == {0, 5000, 29999, 30000}

\* ------------------------------------------------------- program constants

\* SQL NULL / JS null in a numeric or timestamp column.
NULL == -1

\* SQL NULL / JS null in a text column.
NULL_TEXT == "null"

\* recordAction: expiresAt = now + cooldownSeconds * 1000.
MsPerSecond == 1000

\* createOrder: checkRateLimit(clientIP, 'order_placement', 30).
OrderCooldownSeconds == 30

\* generate_order_number: LPAD(..., 4, '0').
OrderNumberWidth == 4

\* OrderManager.statusOptions / the CHECK constraint on orders.status.
statusOptions ==
  {"pending", "confirmed", "preparing", "ready", "out_for_delivery",
   "completed", "cancelled"}

\* The CHECK constraint on orders.service_type.
serviceTypes == {"dine-in", "pickup", "delivery"}

\* ----------------------------------------------------------------- inputs

Shake == [name |-> "Shake", quantity |-> 2, totalPrice |-> 120]
Fries == [name |-> "Fries", quantity |-> 1, totalPrice |-> 80]

\* The createOrder calls a customer can make: the cart, the service type,
\* the total shown at checkout (cart lines plus delivery fee) and the
\* CreateOrderOptions that matter to the pipeline.
CreateOrderArgs ==
  { [cartItems |-> <<Shake>>, serviceType |-> "dine-in", total |-> 240,
     deliveryFee |-> NULL, lalamoveQuotationId |-> NULL_TEXT],
    [cartItems |-> <<Shake, Fries>>, serviceType |-> "delivery", total |-> 370,
     deliveryFee |-> 50, lalamoveQuotationId |-> "Q1"],
    [cartItems |-> <<Fries>>, serviceType |-> "pickup", total |-> 80,
     deliveryFee |-> NULL, lalamoveQuotationId |-> "Q1"] }

\* ------------------------------------------------------------------ state

VARIABLES
  now,              \* the wall clock (Date.now() in the browser, now() in SQL)
  localStorage,     \* the 'starrs_rate_limits' entries of the browser store
  orders,           \* table orders
  order_items,      \* table order_items
  rate_limit_logs,  \* table rate_limit_logs
  lalamoveConfig,   \* TRUE iff buildLalamoveConfig(siteSettings) is not null
  calls,            \* the createOrder calls: position and local variables
  bookings,         \* the delivery orders the courier provider has created
  desk,             \* the last status request of the staff and how it ended
  mutationCount,    \* the committed changes the realtime channel has announced
  observers,        \* the mounted useOrders hooks: channel, fetches, order list
  API_SECRET,       \* LALAMOVE_API_SECRET in the environment of the proxy
  site_settings,    \* table site_settings (the lalamove_* rows)
  siteSettings,     \* useSiteSettings state of a visitor's browser
  rpcs,             \* the check_rate_limit calls the database is running
  submissions,      \* the number of submissions the rate limiters were fed
  verdicts,         \* what each rate limiter said to the last submission
  API_KEY,          \* LALAMOVE_API_KEY in the environment of the proxy
  invocations,      \* the requests the proxy's handler is serving or has served
  outbox,           \* the requests the proxy has sent to the courier provider
  allocation,       \* the generate_order_number call the database is running
  contactNumber,    \* the contact number typed into the checkout form
  recipientPhone    \* the recipient phone createOrder hands to the booking call

vars == <<now, localStorage, orders, order_items, rate_limit_logs,
          lalamoveConfig, calls, bookings, desk, mutationCount, observers,
          API_SECRET, site_settings, siteSettings, rpcs, submissions, verdicts,
          API_KEY, invocations, outbox, allocation, contactNumber,
          recipientPhone>>

\* The state of order intake.
intake == <<orders, order_items, lalamoveConfig, calls, bookings>>

\* The state of the two rate limiters, the clock aside.
limiter == <<rpcs, submissions, verdicts>>

\* The state of the order manager screens.
manager == <<desk, mutationCount, observers>>

\* The state of the delivery proxy, its secret aside.
proxy == <<API_KEY, invocations, outbox>>

\* The state of a generate_order_number call followed statement by
\* statement, and of the phone number on its way to the booking call.
bench == <<allocation, contactNumber, recipientPhone>>

\* The state of the site settings and of the proxy.
beyond == <<API_SECRET, site_settings, siteSettings, limiter, proxy, bench>>

\* The state that only a call of the delivery proxy or a change of the site
\* settings touches.
others == <<bookings, beyond>>

IdleCall ==
  [pc |-> "idle", clientIP |-> NULL_TEXT, args |-> NULL_TEXT,
   orderNumber |-> NULL, bookingRequests |-> 0, bookingFailed |-> FALSE,
   lalamoveOrderResult |-> NULL_TEXT, cooldownRemaining |-> NULL,
   error |-> NULL_TEXT, log |-> {}]

\* The rows lalamove_market, lalamove_api_key and lalamove_api_secret of
\* site_settings, as the seeding migration inserts them.
SeededSettings ==
  [lalamove_market |-> "PH", lalamove_api_key |-> "", lalamove_api_secret |-> ""]

\* useSiteSettings before its first fetch has answered: siteSettings is null.
NullSettings ==
  [lalamove_market |-> NULL_TEXT, lalamove_api_key |-> NULL_TEXT,
   lalamove_api_secret |-> NULL_TEXT]

\* A connection of the database that runs no check_rate_limit.
IdleRpc ==
  [pc |-> "idle", p_ip_address |-> NULL_TEXT, p_action_type |-> NULL_TEXT,
   p_cooldown_seconds |-> NULL, started |-> NULL, last_action_time |-> NULL,
   returned |-> NULL_TEXT]

\* No submission has been fed to the rate limiters.
NoVerdicts == [client |-> NULL_TEXT, server |-> NULL_TEXT]

\* A useOrders hook whose initial fetchOrders has set the list and whose
\* channel is subscribed: no change event waits in the channel, no
\* fetchOrders is in flight, error is null, no fetchOrders has failed.
MountedObserver(list) ==
  [pending |-> 0, sent |-> 0, answers |-> {}, orders |-> list,
   error |-> FALSE, failed |-> FALSE]

\* No status request has been made at the order desk.
NoRequest ==
  [op |-> "none", ids |-> {}, status |-> NULL_TEXT, failing |-> {},
   before |-> {}, outcome |-> NULL_TEXT]

\* A slot of the proxy in which no request has arrived yet.
IdleInvocation ==
  [pc |-> "idle", method |-> NULL_TEXT, pathname |-> <<>>,
   payload |-> [none |-> NULL_TEXT], route |-> NULL_TEXT,
   refetch |-> NULL_TEXT, status |-> NULL]

\* No generate_order_number call is being followed.
IdleAllocation ==
  [pc |-> "idle", order_count |-> NULL, new_order_number |-> NULL,
   iterations |-> 0]

\* No phone number has been handed to the booking call.
NotSent == <<"not sent">>

Init ==
  /\ now = 0
  /\ localStorage = {}
  /\ orders = {}
  /\ order_items = {}
  /\ rate_limit_logs = {}
  /\ lalamoveConfig \in BOOLEAN
  /\ calls = [s \in Subs |-> IdleCall]
  /\ bookings = {}
  /\ desk = NoRequest
  /\ mutationCount = 0
  /\ observers = [v \in Observers |-> MountedObserver({})]
  /\ API_SECRET = "sk_1"
  /\ site_settings = SeededSettings
  /\ siteSettings = NullSettings
  /\ rpcs = [r \in Rpcs |-> IdleRpc]
  /\ submissions = 0
  /\ verdicts = NoVerdicts
  /\ API_KEY = "pk_1"
  /\ invocations = [i \in Invocations |-> IdleInvocation]
  /\ outbox = {}
  /\ allocation = IdleAllocation
  /\ contactNumber = <<>>
  /\ recipientPhone = NotSent

\* ----------------------------------------------------- rate limiter (browser)

\* Math.ceil(a / b) for a >= 0, b > 0.
Ceil(a, b) == (a + b - 1) \div b

\* getStoredRateLimits: the stored entries that have not expired.
getStoredRateLimits(stored, t) == {entry \in stored : entry.expiresAt > t}

\* recordAction with the cooldown taken for milliseconds (the conversion
\* from seconds forgotten).
recordAction_NoMsConversion(stored, ip, actionType, cooldownSeconds, t) ==
  LET entries  == getStoredRateLimits(stored, t)
      filtered == {entry \in entries :
                     ~(entry.ip = ip /\ entry.actionType = actionType)}
  IN  filtered \cup {[ip |-> ip, actionType |-> actionType, timestamp |-> t,
                      expiresAt |-> t + cooldownSeconds]}

\* recordAction: drop the pair's entry, push a new one, save.
recordAction(stored, ip, actionType, cooldownSeconds, t) ==
  LET entries  == getStoredRateLimits(stored, t)
      filtered == {entry \in entries :
                     ~(entry.ip = ip /\ entry.actionType = actionType)}
  IN  filtered \cup {[ip |-> ip, actionType |-> actionType, timestamp |-> t,
                      expiresAt |-> t + cooldownSeconds * MsPerSecond]}

\* checkRateLimit that resolves the tie the other way: an entry counts as long
\* as its expiry has not passed, the expiry instant included.
checkRateLimit_TieDenies(stored, ip, actionType, cooldownSeconds, t) ==
  LET entries  == {entry \in stored : entry.expiresAt >= t}
      matching == {entry \in entries :
                     entry.ip = ip /\ entry.actionType = actionType}
  IN  IF matching = {}
        THEN [allowed |-> TRUE, cooldownRemaining |-> NULL]
        ELSE LET recentEntry == CHOOSE e \in matching :
                                  \A f \in matching : f.timestamp <= e.timestamp
             IN  IF t > recentEntry.expiresAt
                   THEN [allowed |-> TRUE, cooldownRemaining |-> NULL]
                   ELSE [allowed |-> FALSE,
                         cooldownRemaining |->
                           Ceil(recentEntry.expiresAt - t, MsPerSecond)]

\* checkRateLimit: allowed, or the seconds left of the pair's latest entry.
checkRateLimit(stored, ip, actionType, cooldownSeconds, t) ==
  LET entries  == getStoredRateLimits(stored, t)
      matching == {entry \in entries :
                     entry.ip = ip /\ entry.actionType = actionType}
  IN  IF matching = {}
        THEN [allowed |-> TRUE, cooldownRemaining |-> NULL]
        ELSE LET recentEntry == CHOOSE e \in matching :
                                  \A f \in matching : f.timestamp <= e.timestamp
             IN  IF t >= recentEntry.expiresAt
                   THEN [allowed |-> TRUE, cooldownRemaining |-> NULL]
                   ELSE [allowed |-> FALSE,
                         cooldownRemaining |->
                           Ceil(recentEntry.expiresAt - t, MsPerSecond)]

\* check_rate_limit (SQL), its SELECT: the latest timestamp among the pair's
\* unexpired rows, NULL when there is none.
SelectLastAction(logs, p_ip_address, p_action_type, t) ==
  LET unexpired == {l \in logs : /\ l.ip_address = p_ip_address
                                 /\ l.action_type = p_action_type
                                 /\ l.expires_at > t}
  IN  IF unexpired = {}
        THEN NULL
        ELSE CHOOSE x \in {l.timestamp : l \in unexpired} :
               \A l \in unexpired : l.timestamp <= x

\* check_rate_limit (SQL) from its first IF on: allowed, and a row inserted,
\* when the SELECT found none or when the timestamp it found plus the
\* cooldown of this call has passed.  The result is the answer and the table
\* after the call; id is the primary key the inserted row is given.
DecideAndRecord(logs, id, last_action_time, p_ip_address, p_action_type, p_cooldown_seconds, t) ==
  LET inserted  == logs \cup
                     {[id |-> id,
                       ip_address |-> p_ip_address,
                       action_type |-> p_action_type,
                       timestamp |-> t,
                       expires_at |-> t + p_cooldown_seconds * MsPerSecond]}
      cooldown_end == last_action_time + p_cooldown_seconds * MsPerSecond
  IN  IF last_action_time = NULL
        THEN [allowed |-> TRUE, logs |-> inserted]
        ELSE IF t >= cooldown_end
          THEN [allowed |-> TRUE, logs |-> inserted]
          ELSE [allowed |-> FALSE, logs |-> logs]

\* check_rate_limit (SQL) run with no other call of it in between.
check_rate_limit(logs, id, p_ip_address, p_action_type, p_cooldown_seconds, t) ==
  DecideAndRecord(logs, id,
                  SelectLastAction(logs, p_ip_address, p_action_type, t),
                  p_ip_address, p_action_type, p_cooldown_seconds, t)

\* ------------------------------------------------------------- database

RECURSIVE Pow10(_)
Pow10(n) == IF n = 0 THEN 1 ELSE 10 * Pow10(n - 1)

\* LPAD(n::text, 4, '0') read back as a number: numbers of up to four digits
\* are padded (the value is kept), longer ones are cut to their first four
\* digits.  The 'ORD-YYYYMMDD-' prefix is the same for every order of the day.
RECURSIVE LPad(_)
LPad(n) == IF n < Pow10(OrderNumberWidth) THEN n ELSE LPad(n \div 10)

RECURSIVE FirstUnused(_, _)
FirstUnused(tbl, order_count) ==
  IF \E o \in tbl : o.order_number = LPad(order_count + 1)
    THEN FirstUnused(tbl, order_count + 1)
    ELSE LPad(order_count + 1)

\* generate_order_number(): count today's orders, propose count + 1, step
\* over the numbers already in the table.  It reads and writes nothing.
generate_order_number(tbl) == FirstUnused(tbl, Cardinality(tbl))

\* set_completed_at without its ELSIF branch: completed_at is set on the way
\* into completed and never cleared.
set_completed_at_NeverCleared(old, new, t) ==
  IF new.status = "completed" /\ old.status # "completed"
    THEN [new EXCEPT !.completed_at = t]
    ELSE new

\* Trigger set_orders_completed_at (BEFORE UPDATE, for each row).
set_completed_at(old, new, t) ==
  IF new.status = "completed" /\ old.status # "completed"
    THEN [new EXCEPT !.completed_at = t]
    ELSE IF new.status # "completed"
      THEN [new EXCEPT !.completed_at = NULL]
      ELSE new

\* Trigger update_orders_updated_at (BEFORE UPDATE, for each row).
update_updated_at_column(old, new, t) == [new EXCEPT !.updated_at = t]

\* One row through both BEFORE UPDATE triggers.
BeforeUpdate(old, new, t) ==
  update_updated_at_column(old, set_completed_at(old, new, t), t)

\* UPDATE orders SET status restricted to pending orders: the update of an
\* order in any other status changes no row.
UpdateStatus_PendingOnly(tbl, ids, status, t) ==
  {IF o.id \in ids /\ o.status = "pending"
     THEN BeforeUpdate(o, [o EXCEPT !.status = status], t) ELSE o
     : o \in tbl}

\* UPDATE orders SET status that removes the rows it cancels (cancellation
\* as a removal).
UpdateStatus_CancelRemoves(tbl, ids, status, t) ==
  {IF o.id \in ids THEN BeforeUpdate(o, [o EXCEPT !.status = status], t) ELSE o
     : o \in {x \in tbl : ~(x.id \in ids /\ status = "cancelled")}}

\* UPDATE orders SET status = ... WHERE id IN ids (one statement).
UpdateStatus(tbl, ids, status, t) ==
  {IF o.id \in ids THEN BeforeUpdate(o, [o EXCEPT !.status = status], t) ELSE o
     : o \in tbl}

\* UPDATE orders SET lalamove_* = ... WHERE id = id (one statement).
UpdateBooking(tbl, id, result, t) ==
  {IF o.id = id
     THEN BeforeUpdate(o, [o EXCEPT !.lalamove_order_id = result.orderId,
                                    !.lalamove_status = result.status,
                                    !.lalamove_tracking_url = result.shareLink], t)
     ELSE o
     : o \in tbl}

\* The row createOrder inserts; id, created_at, updated_at and completed_at
\* take their column defaults.
OrderRow(s, c, t) ==
  [id |-> s,
   order_number |-> c.orderNumber,
   service_type |-> c.args.serviceType,
   status |-> "pending",
   total |-> c.args.total,
   delivery_fee |-> c.args.deliveryFee,
   lalamove_quotation_id |-> c.args.lalamoveQuotationId,
   lalamove_order_id |-> NULL_TEXT,
   lalamove_status |-> NULL_TEXT,
   lalamove_tracking_url |-> NULL_TEXT,
   customer_ip |-> c.clientIP,
   created_at |-> t,
   updated_at |-> t,
   completed_at |-> NULL]

\* The rows createOrder inserts into order_items, one per cart line.
OrderItemRows(order_id, cartItems) ==
  {[order_id |-> order_id, line |-> i,
    menu_item_name |-> cartItems[i].name,
    quantity |-> cartItems[i].quantity,
    unit_price |-> cartItems[i].totalPrice,
    total_price |-> cartItems[i].totalPrice * cartItems[i].quantity]
     : i \in 1..Len(cartItems)}

\* formatOrderData: an order as fetchOrders / fetchOrderById hand it out,
\* with its order_items rows; a delivery_fee of 0 or NULL reads as null.
formatOrderData(order, items) ==
  [id |-> order.id,
   order_number |-> order.order_number,
   service_type |-> order.service_type,
   status |-> order.status,
   total |-> order.total,
   completed_at |-> order.completed_at,
   delivery_fee |-> IF order.delivery_fee = NULL \/ order.delivery_fee = 0
                      THEN NULL ELSE order.delivery_fee,
   lalamove_quotation_id |-> order.lalamove_quotation_id,
   lalamove_order_id |-> order.lalamove_order_id,
   lalamove_status |-> order.lalamove_status,
   lalamove_tracking_url |-> order.lalamove_tracking_url,
   order_items |-> {i \in items : i.order_id = order.id}]

\* SELECT *, order_items (*) FROM orders: every order with its items.
SelectOrders == {formatOrderData(o, order_items) : o \in orders}

\* ------------------------------------------------------------ createOrder

\* createOrder is over: its local variables go out of scope.  What the
\* caller and the console keep (the outcome, the log, the identity used) stays.
EndOfCall(c) ==
  [c EXCEPT !.args = NULL_TEXT, !.orderNumber = NULL,
            !.lalamoveOrderResult = NULL_TEXT]

\* The catch of createOrder: log and rethrow.
Throw(c, why) ==
  EndOfCall([c EXCEPT !.pc = "thrown", !.error = why,
                      !.log = @ \cup {"Error creating order"}])

\* createOrder up to its first await: getClientIP, the browser-side
\* rate-limit check, then the generate_order_number request is sent.
Submit(s) ==
  /\ calls[s].pc = "idle"
  /\ \E ip \in Idents, a \in CreateOrderArgs :
       LET rateLimitCheck ==
             checkRateLimit(localStorage, ip, "order_placement",
                            OrderCooldownSeconds, now)
           c == [calls[s] EXCEPT !.clientIP = ip, !.args = a]
       IN  calls' = [calls EXCEPT ![s] =
             IF rateLimitCheck.allowed
               THEN [c EXCEPT !.pc = "rpc"]
               ELSE Throw([c EXCEPT !.cooldownRemaining =
                                      rateLimitCheck.cooldownRemaining],
                          "Rate limit exceeded")]
  /\ UNCHANGED <<now, localStorage, orders, order_items, rate_limit_logs,
                 lalamoveConfig, manager, others>>

\* supabase.rpc('generate_order_number') answers; the order insert is sent.
GenerateOrderNumber(s) ==
  /\ calls[s].pc = "rpc"
  /\ calls' = [calls EXCEPT ![s] =
       [@ EXCEPT !.pc = "insert",
                 !.orderNumber = generate_order_number(orders)]]
  /\ UNCHANGED <<now, localStorage, orders, order_items, rate_limit_logs,
                 lalamoveConfig, manager, others>>

\* The rpc fails: if (orderNumberError) throw orderNumberError.
GenerateOrderNumberError(s) ==
  /\ calls[s].pc = "rpc"
  /\ calls' = [calls EXCEPT ![s] = Throw(@, "orderNumberError")]
  /\ UNCHANGED <<now, localStorage, orders, order_items, rate_limit_logs,
                 lalamoveConfig, manager, others>>

\* INSERT INTO orders on a table without UNIQUE (order_number): the row is
\* stored whatever numbers the table holds.
InsertOrder_NoUniqueConstraint(s) ==
  /\ calls[s].pc = "insert"
  /\ orders' = orders \cup {OrderRow(s, calls[s], now)}
  /\ calls' = [calls EXCEPT ![s].pc = "items"]
  /\ UNCHANGED <<now, localStorage, order_items, rate_limit_logs,
                 lalamoveConfig, manager, others>>

\* INSERT INTO orders answers.  A number that is already in the table
\* violates UNIQUE (order_number): the insert is rejected, nothing is stored
\* and orderError is thrown.  Otherwise the row is stored and the
\* order_items insert is sent.
InsertOrder(s) ==
  /\ calls[s].pc = "insert"
  /\ IF \E o \in orders : o.order_number = calls[s].orderNumber
       THEN /\ calls' = [calls EXCEPT ![s] = Throw(@, "orderError: duplicate order_number")]
            /\ UNCHANGED orders
       ELSE /\ orders' = orders \cup {OrderRow(s, calls[s], now)}
            /\ calls' = [calls EXCEPT ![s].pc = "items"]
  /\ UNCHANGED <<now, localStorage, order_items, rate_limit_logs, lalamoveConfig, manager, others>>

\* The order insert fails for any other reason (network, policy).
InsertOrderError(s) ==
  /\ calls[s].pc = "insert"
  /\ calls' = [calls EXCEPT ![s] = Throw(@, "orderError")]
  /\ UNCHANGED <<now, localStorage, orders, order_items, rate_limit_logs,
                 lalamoveConfig, manager, others>>

\* The booking condition without its test of the service type.
ShouldBook_AnyService(c) ==
  /\ c.args.lalamoveQuotationId # NULL_TEXT
  /\ lalamoveConfig

\* The condition under which createOrder calls createDeliveryOrder.
ShouldBook(c) ==
  /\ c.args.serviceType = "delivery"
  /\ c.args.lalamoveQuotationId # NULL_TEXT
  /\ lalamoveConfig

\* The tail of createOrder once no booking call is pending: recordAction,
\* then the fetchOrderById request is sent.
RecordAndFetch(s, c) ==
  /\ localStorage' = recordAction(localStorage, c.clientIP, "order_placement",
                                  OrderCooldownSeconds, now)
  /\ calls' = [calls EXCEPT ![s] = [c EXCEPT !.pc = "fetch"]]

\* INSERT INTO order_items answers without error.  Either the booking call
\* is sent, or (no booking) the action is recorded and the re-fetch is sent.
InsertItems(s) ==
  /\ calls[s].pc = "items"
  /\ order_items' = order_items \cup OrderItemRows(s, calls[s].args.cartItems)
  /\ IF ShouldBook(calls[s])
       THEN /\ calls' = [calls EXCEPT ![s] =
                 [@ EXCEPT !.pc = "book", !.bookingRequests = @ + 1]]
            /\ UNCHANGED localStorage
       ELSE RecordAndFetch(s, calls[s])
  /\ UNCHANGED <<now, orders, rate_limit_logs, lalamoveConfig, manager, others>>

\* The order_items insert fails: if (itemsError) throw itemsError.
InsertItemsError(s) ==
  /\ calls[s].pc = "items"
  /\ calls' = [calls EXCEPT ![s] = Throw(@, "itemsError")]
  /\ UNCHANGED <<now, localStorage, orders, order_items, rate_limit_logs,
                 lalamoveConfig, manager, others>>

\* What the delivery proxy answers to a successful booking of call s.
DeliveryOrderResult(s) ==
  [orderId |-> "LM-" \o ToString(s), status |-> "ASSIGNING_DRIVER",
   shareLink |-> "https://share/" \o ToString(s)]

\* DeliveryQuote.expiresAt of the quotation the checkout obtained at instant
\* 0 (fetchDeliveryQuotation); createOrder is handed the quotation id only.
expiresAt(quotationId) == IF quotationId = "Q1" THEN 5000 ELSE NULL

\* The provider has created a delivery order from this quotation.
QuoteConsumed(quotationId) ==
  \E b \in bookings : b.quotationId = quotationId

\* What the provider can answer to POST /orders: it creates the delivery
\* order, or answers with an error; a quotation a delivery order was created
\* from is not accepted again.
ProviderAnswers(quotationId) ==
  IF QuoteConsumed(quotationId) THEN {"rejected"} ELSE {"created", "rejected"}

\* The provider's delivery orders after it gave this answer to call s.
Booked(s, answer) ==
  IF answer = "created"
    THEN bookings \cup {[quotationId |-> calls[s].args.lalamoveQuotationId,
                         orderId |-> DeliveryOrderResult(s).orderId]}
    ELSE bookings

\* handleOrder that answers 200 with an order whatever the provider said.
handleOrder_ErrorSwallowed(s, answer) ==
  [ok |-> TRUE, data |-> DeliveryOrderResult(s)]

\* handleOrder of the proxy: the provider's order is answered with 200; a
\* provider error makes makeLalamoveRequest throw, which is a non-2xx answer.
handleOrder(s, answer) ==
  IF answer = "created"
    THEN [ok |-> TRUE, data |-> DeliveryOrderResult(s)]
    ELSE [ok |-> FALSE, data |-> NULL_TEXT]

\* createDeliveryOrder resolves (ensureSuccess: response.ok): the update of
\* the booking columns is sent.
BookingSucceeds(s) ==
  /\ calls[s].pc = "book"
  /\ \E answer \in ProviderAnswers(calls[s].args.lalamoveQuotationId) :
       LET response == handleOrder(s, answer)
       IN  /\ response.ok
           /\ bookings' = Booked(s, answer)
           /\ calls' = [calls EXCEPT ![s] =
                [@ EXCEPT !.pc = "save_booking",
                          !.lalamoveOrderResult = response.data]]
  /\ UNCHANGED <<now, localStorage, orders, order_items, rate_limit_logs,
                 lalamoveConfig, manager, beyond>>

\* The booking call without its own try/catch: the error reaches the outer
\* catch of createOrder and is rethrown to the submitter.
CatchBookingError_Rethrown(s, c) ==
  /\ calls' = [calls EXCEPT ![s] =
       Throw([c EXCEPT !.bookingFailed = TRUE], "Failed to create Lalamove order")]
  /\ UNCHANGED localStorage

\* The inner catch sends the booking once more before it gives up.
CatchBookingError_Retried(s, c) ==
  IF c.bookingRequests < 2
    THEN /\ calls' = [calls EXCEPT ![s] =
              [c EXCEPT !.bookingRequests = @ + 1,
                        !.log = @ \cup {"Failed to create Lalamove order"}]]
         /\ UNCHANGED localStorage
    ELSE RecordAndFetch(s, [c EXCEPT !.bookingFailed = TRUE,
                                     !.log = @ \cup {"Failed to create Lalamove order"}])

\* The inner catch of createOrder: the booking error is logged, the result
\* stays null, and the call goes on to recordAction and the re-fetch.
CatchBookingError(s, c) ==
  RecordAndFetch(s, [c EXCEPT !.bookingFailed = TRUE,
                              !.log = @ \cup {"Failed to create Lalamove order"}])

\* createDeliveryOrder rejects: the proxy URL is missing, the proxy cannot
\* be reached, or it answers non-2xx (missing credentials or fields, provider
\* error).
BookingFails(s) ==
  /\ calls[s].pc = "book"
  /\ \E answer \in ProviderAnswers(calls[s].args.lalamoveQuotationId) :
       LET response == handleOrder(s, answer)
       IN  /\ ~response.ok
           /\ bookings' = Booked(s, answer)
  /\ CatchBookingError(s, calls[s])
  /\ UNCHANGED <<now, orders, order_items, rate_limit_logs, lalamoveConfig,
                 manager, beyond>>

\* The provider creates the delivery order but the answer does not reach the
\* browser: fetch rejects, and createDeliveryOrder with it.
BookingAnswerLost(s) ==
  /\ calls[s].pc = "book"
  /\ "created" \in ProviderAnswers(calls[s].args.lalamoveQuotationId)
  /\ bookings' = Booked(s, "created")
  /\ CatchBookingError(s, calls[s])
  /\ UNCHANGED <<now, orders, order_items, rate_limit_logs, lalamoveConfig,
                 manager, beyond>>

\* The update of the booking columns answers without error.
SaveBooking(s) ==
  /\ calls[s].pc = "save_booking"
  /\ orders' = UpdateBooking(orders, s, calls[s].lalamoveOrderResult, now)
  /\ RecordAndFetch(s, calls[s])
  /\ UNCHANGED <<now, order_items, rate_limit_logs, lalamoveConfig, manager, others>>

\* The update of the booking columns fails: logged, not thrown.
SaveBookingError(s) ==
  /\ calls[s].pc = "save_booking"
  /\ RecordAndFetch(s, [calls[s] EXCEPT
       !.log = @ \cup {"Failed to save Lalamove order info"}])
  /\ UNCHANGED <<now, orders, order_items, rate_limit_logs, lalamoveConfig, manager, others>>

\* fetchOrderById answers with the order: createOrder returns it.  The
\* refresh of the order list in between reads the tables and writes none.
FetchOrderById(s) ==
  /\ calls[s].pc = "fetch"
  /\ \E o \in orders : o.id = s
  /\ calls' = [calls EXCEPT ![s] = EndOfCall([@ EXCEPT !.pc = "returned"])]
  /\ UNCHANGED <<now, localStorage, orders, order_items, rate_limit_logs,
                 lalamoveConfig, manager, others>>

\* fetchOrderById fails: it rethrows, and so does createOrder.
FetchOrderByIdError(s) ==
  /\ calls[s].pc = "fetch"
  /\ calls' = [calls EXCEPT ![s] = Throw(@, "fetchError")]
  /\ UNCHANGED <<now, localStorage, orders, order_items, rate_limit_logs,
                 lalamoveConfig, manager, others>>

\* ------------------------------------------------------- staff operations

\* updateOrderStatus(id, status): any status the select offers, for any
\* order shown.  A failing update changes no row and is thrown to the caller.
updateOrderStatus(id, status) ==
  /\ \E o \in orders : o.id = id
  /\ orders' = UpdateStatus(orders, {id}, status, now)
  /\ UNCHANGED <<now, localStorage, order_items, rate_limit_logs,
                 lalamoveConfig, calls, others>>

\* bulkUpdateStatus(ids, status): one UPDATE ... WHERE id IN (ids).
bulkUpdateStatus(ids, status) ==
  /\ ids # {}
  /\ ids \subseteq {o.id : o \in orders}
  /\ orders' = UpdateStatus(orders, ids, status, now)
  /\ UNCHANGED <<now, localStorage, order_items, rate_limit_logs,
                 lalamoveConfig, calls, others>>

\* ------------------------------------------------------------------ clock

Tick ==
  /\ \E t \in Instants : t > now /\ now' = t
  /\ UNCHANGED <<localStorage, orders, order_items, rate_limit_logs,
                 lalamoveConfig, calls, manager, others>>

\* One step of the createOrder call s.
createOrder(s) ==
  \/ Submit(s)
  \/ GenerateOrderNumber(s)
  \/ GenerateOrderNumberError(s)
  \/ InsertOrder(s)
  \/ InsertOrderError(s)
  \/ InsertItems(s)
  \/ InsertItemsError(s)
  \/ BookingSucceeds(s)
  \/ BookingFails(s)
  \/ BookingAnswerLost(s)
  \/ SaveBooking(s)
  \/ SaveBookingError(s)
  \/ FetchOrderById(s)
  \/ FetchOrderByIdError(s)

\* Order intake: any number of createOrder calls, interleaved at their awaits.
Next ==
  \/ \E s \in Subs : createOrder(s)
  \/ Tick

Spec == Init /\ [][Next]_vars

\* No createOrder call other than s is between its first and its last step.
OnlyCall(s) ==
  \A r \in Subs \ {s} : calls[r].pc \in {"idle", "returned", "thrown"}

\* The order desk: customers submit one after the other while the staff
\* change statuses at any moment, also between the steps of a createOrder.
\* All of it happens within the first instant of the clock.
\* A status request made while customers submit: the order manager screen
\* is not looked at.
updateOrderStatusAtDesk(id, status) ==
  updateOrderStatus(id, status) /\ UNCHANGED manager

bulkUpdateStatusAtDesk(ids, status) ==
  bulkUpdateStatus(ids, status) /\ UNCHANGED manager

NextDesk ==
  \/ \E s \in Subs : OnlyCall(s) /\ createOrder(s)
  \/ \E id \in Subs, status \in statusOptions :
       updateOrderStatusAtDesk(id, status)
  \/ \E ids \in SUBSET Subs, status \in statusOptions :
       bulkUpdateStatusAtDesk(ids, status)

SpecDesk == Init /\ [][NextDesk]_vars

\* The steps of the createOrder call s that the database and the browser
\* take on their own: every statement sent to the database is answered, with
\* rows or with an error, and the code after the answer runs.
DatabaseAnswers(s) ==
  \/ GenerateOrderNumber(s)
  \/ GenerateOrderNumberError(s)
  \/ InsertOrder(s)
  \/ InsertOrderError(s)
  \/ InsertItems(s)
  \/ InsertItemsError(s)
  \/ SaveBooking(s)
  \/ SaveBookingError(s)
  \/ FetchOrderById(s)
  \/ FetchOrderByIdError(s)

\* Customers submit one after the other while time passes.
NextPatient ==
  \/ \E s \in Subs : OnlyCall(s) /\ createOrder(s)
  \/ Tick

\* The database always answers and the clock always advances; whether and
\* when the delivery proxy answers a booking call is up to the network.
SpecPatient ==
  /\ Init
  /\ [][NextPatient]_vars
  /\ \A s \in Subs : WF_vars(OnlyCall(s) /\ DatabaseAnswers(s))
  /\ WF_vars(Tick)

\* ---------------------------------------------------- the order manager

\* The identity under which the order s was placed.
IdentOf(s) == IF s % 2 = 1 THEN "session_1" ELSE "session_2"

\* The createOrder call that placed the order s, after it has returned.
PlacedCall(s) ==
  EndOfCall([IdleCall EXCEPT !.pc = "returned", !.clientIP = IdentOf(s)])

\* The order s as createOrder inserted it (a dine-in order of one cart line)
\* and as the status updates made since left it.
PlacedOrder(s, status) ==
  LET a   == [cartItems |-> <<Shake>>, serviceType |-> "dine-in",
              total |-> 240, deliveryFee |-> NULL,
              lalamoveQuotationId |-> NULL_TEXT]
      c   == [IdleCall EXCEPT !.clientIP = IdentOf(s), !.args = a,
                              !.orderNumber = s]
      row == OrderRow(s, c, 0)
  IN  IF status = "pending"
        THEN row
        ELSE BeforeUpdate(row, [row EXCEPT !.status = status], 0)

\* The order manager is open on a day on which NumSubs orders were placed;
\* each order is in any of the statuses the staff may have given it.
InitStaff ==
  /\ now = 0
  /\ \E st \in [Subs -> statusOptions] :
       orders = {PlacedOrder(s, st[s]) : s \in Subs}
  /\ order_items = UNION {OrderItemRows(s, <<Shake>>) : s \in Subs}
  /\ localStorage =
       {[ip |-> ip, actionType |-> "order_placement", timestamp |-> 0,
         expiresAt |-> OrderCooldownSeconds * MsPerSecond]
          : ip \in {IdentOf(s) : s \in Subs}}
  /\ rate_limit_logs = {}
  /\ lalamoveConfig = FALSE
  /\ calls = [s \in Subs |-> PlacedCall(s)]
  /\ bookings = {}
  /\ desk = NoRequest
  /\ mutationCount = 0
  /\ observers = [v \in Observers |-> MountedObserver({})]
  /\ API_SECRET = "sk_1"
  /\ site_settings = SeededSettings
  /\ siteSettings = NullSettings
  /\ rpcs = [r \in Rpcs |-> IdleRpc]
  /\ submissions = 0
  /\ verdicts = NoVerdicts
  /\ API_KEY = "pk_1"
  /\ invocations = [i \in Invocations |-> IdleInvocation]
  /\ outbox = {}
  /\ allocation = IdleAllocation
  /\ contactNumber = <<>>
  /\ recipientPhone = NotSent

\* What handleStatusChange / handleBulkStatusChange saw: the request, the
\* status each target order had when it was made, the rows on which the
\* database raised an error, and whether the hook resolved or threw.
Request(op, ids, status, failing, outcome) ==
  [op |-> op, ids |-> ids, status |-> status, failing |-> failing,
   before |-> {[id |-> o.id, status |-> o.status] : o \in {x \in orders : x.id \in ids}},
   outcome |-> outcome]

\* updateOrderStatus whose UPDATE returns an error: if (updateError) throw.
updateOrderStatusError(id, status) ==
  /\ \E o \in orders : o.id = id
  /\ desk' = Request("updateOrderStatus", {id}, status, {id}, "thrown")
  /\ UNCHANGED <<now, localStorage, orders, order_items, rate_limit_logs,
                 lalamoveConfig, calls, mutationCount, observers, others>>

\* bulkUpdateStatus whose UPDATE raises an error on the rows in failing: the
\* statement is one UPDATE ... WHERE id IN (ids), so no row of it is
\* changed, and the hook throws.
bulkUpdateStatusError(ids, status, failing) ==
  /\ failing # {}
  /\ failing \subseteq ids
  /\ ids \subseteq {o.id : o \in orders}
  /\ desk' = Request("bulkUpdateStatus", ids, status, failing, "thrown")
  /\ UNCHANGED <<now, localStorage, orders, order_items, rate_limit_logs,
                 lalamoveConfig, calls, mutationCount, observers, others>>

\* updateOrderStatus / bulkUpdateStatus called from the order manager, which
\* sees the hook resolve.
handleStatusChange(id, status) ==
  /\ updateOrderStatus(id, status)
  /\ desk' = Request("updateOrderStatus", {id}, status, {}, "resolved")
  /\ UNCHANGED <<mutationCount, observers>>

handleBulkStatusChange(ids, status) ==
  /\ bulkUpdateStatus(ids, status)
  /\ desk' = Request("bulkUpdateStatus", ids, status, {}, "resolved")
  /\ UNCHANGED <<mutationCount, observers>>

\* The staff work on the orders of the day, one request after the other.
NextStaff ==
  \/ \E id \in Subs, status \in statusOptions :
       handleStatusChange(id, status)
  \/ \E id \in Subs, status \in statusOptions :
       updateOrderStatusError(id, status)
  \/ \E ids \in SUBSET Subs, status \in statusOptions :
       handleBulkStatusChange(ids, status)
  \/ \E ids \in SUBSET Subs, failing \in SUBSET Subs, status \in statusOptions :
       bulkUpdateStatusError(ids, status, failing)

SpecStaff == InitStaff /\ [][NextStaff]_vars

\* ------------------------------------------------- realtime subscription

\* The order manager screens are open, their lists loaded and their channels
\* subscribed, on a day on which NumSubs orders were placed and none has
\* been touched yet.
InitView ==
  /\ now = 0
  /\ orders = {PlacedOrder(s, "pending") : s \in Subs}
  /\ order_items = UNION {OrderItemRows(s, <<Shake>>) : s \in Subs}
  /\ localStorage =
       {[ip |-> ip, actionType |-> "order_placement", timestamp |-> 0,
         expiresAt |-> OrderCooldownSeconds * MsPerSecond]
          : ip \in {IdentOf(s) : s \in Subs}}
  /\ rate_limit_logs = {}
  /\ lalamoveConfig = FALSE
  /\ calls = [s \in Subs |-> PlacedCall(s)]
  /\ bookings = {}
  /\ desk = NoRequest
  /\ mutationCount = 0
  /\ observers = [v \in Observers |-> MountedObserver(SelectOrders)]
  /\ API_SECRET = "sk_1"
  /\ site_settings = SeededSettings
  /\ siteSettings = NullSettings
  /\ rpcs = [r \in Rpcs |-> IdleRpc]
  /\ submissions = 0
  /\ verdicts = NoVerdicts
  /\ API_KEY = "pk_1"
  /\ invocations = [i \in Invocations |-> IdleInvocation]
  /\ outbox = {}
  /\ allocation = IdleAllocation
  /\ contactNumber = <<>>
  /\ recipientPhone = NotSent

\* A status update commits: the publication supabase_realtime puts one
\* change event of table orders into the channel of every subscribed hook.
CommitStatusChange(id, status) ==
  /\ mutationCount < MaxMutations
  /\ updateOrderStatus(id, status)
  /\ mutationCount' = mutationCount + 1
  /\ observers' = [v \in Observers |->
                     [observers[v] EXCEPT !.pending = @ + 1]]
  /\ UNCHANGED desk

\* The postgres_changes callback of hook v runs for one event: it ignores
\* the payload and calls fetchOrders, which sends the query.
OnPostgresChange(v) ==
  /\ observers[v].pending > 0
  /\ observers' = [observers EXCEPT ![v] =
       [@ EXCEPT !.pending = @ - 1, !.sent = @ + 1]]
  /\ UNCHANGED <<now, localStorage, orders, order_items, rate_limit_logs,
                 lalamoveConfig, calls, desk, mutationCount, others>>

\* The database runs one query of hook v: the answer holds the orders, with
\* their items, as they are at this moment, and travels back.
RunQuery(v) ==
  /\ observers[v].sent > 0
  /\ observers' = [observers EXCEPT ![v] =
       [@ EXCEPT !.sent = @ - 1, !.answers = @ \cup {SelectOrders}]]
  /\ UNCHANGED <<now, localStorage, orders, order_items, rate_limit_logs,
                 lalamoveConfig, calls, desk, mutationCount, others>>

\* One query of hook v fails: fetchOrders catches, setError(message); the
\* list stays as it is.
FetchOrdersError(v) ==
  /\ observers[v].sent > 0
  /\ observers' = [observers EXCEPT ![v] =
       [@ EXCEPT !.sent = @ - 1, !.error = TRUE, !.failed = TRUE]]
  /\ UNCHANGED <<now, localStorage, orders, order_items, rate_limit_logs,
                 lalamoveConfig, calls, desk, mutationCount, others>>

\* An answer reaches hook v, in whatever order the answers arrive:
\* setOrders(formattedOrders), setError(null).
FetchOrdersAnswer(v) ==
  /\ \E data \in observers[v].answers :
       observers' = [observers EXCEPT ![v] =
         [@ EXCEPT !.answers = @ \ {data}, !.orders = data, !.error = FALSE]]
  /\ UNCHANGED <<now, localStorage, orders, order_items, rate_limit_logs,
                 lalamoveConfig, calls, desk, mutationCount, others>>

NextView ==
  \/ \E id \in Subs, status \in statusOptions : CommitStatusChange(id, status)
  \/ \E v \in Observers :
       \/ OnPostgresChange(v)
       \/ RunQuery(v)
       \/ FetchOrdersError(v)
       \/ FetchOrdersAnswer(v)

\* Every event is handled, every query is run and every answer arrives.
SpecView ==
  /\ InitView
  /\ [][NextView]_vars
  /\ \A v \in Observers :
       /\ WF_vars(OnPostgresChange(v))
       /\ WF_vars(RunQuery(v))
       /\ WF_vars(FetchOrdersAnswer(v))

\* ----------------------------------------------------------- site settings

\* The values the provider's secret can have.
Secrets == {"sk_1", "sk_2"}

\* What the administrator can put into the Lalamove fields of the settings
\* form: the market, the API key and, in the password field, the API secret.
FormData ==
  [lalamove_market : {"PH", "SG"},
   lalamove_api_key : {"", "pk_1"},
   lalamove_api_secret : {""} \cup Secrets]

SettingKeys == {"lalamove_market", "lalamove_api_key", "lalamove_api_secret"}

\* The proxy is deployed with a secret; the site settings are as seeded and
\* the visitor's browser has not loaded them yet.
InitSettings ==
  /\ now = 0
  /\ localStorage = {}
  /\ orders = {}
  /\ order_items = {}
  /\ rate_limit_logs = {}
  /\ lalamoveConfig = FALSE
  /\ calls = [s \in Subs |-> IdleCall]
  /\ bookings = {}
  /\ desk = NoRequest
  /\ mutationCount = 0
  /\ observers = [v \in Observers |-> MountedObserver({})]
  /\ API_SECRET \in Secrets
  /\ site_settings = SeededSettings
  /\ siteSettings = NullSettings
  /\ rpcs = [r \in Rpcs |-> IdleRpc]
  /\ submissions = 0
  /\ verdicts = NoVerdicts
  /\ API_KEY = "pk_1"
  /\ invocations = [i \in Invocations |-> IdleInvocation]
  /\ outbox = {}
  /\ allocation = IdleAllocation
  /\ contactNumber = <<>>
  /\ recipientPhone = NotSent

\* fetchSiteSettings of the visitor's browser answers: every row of
\* site_settings, the API key and the API secret among them, is put into
\* the siteSettings state.
fetchSiteSettings ==
  /\ siteSettings' = [k \in SettingKeys |-> site_settings[k]]
  /\ UNCHANGED <<now, localStorage, rate_limit_logs, intake, manager,
                 API_SECRET, site_settings, limiter, proxy, bench>>

\* handleSave of the settings form: updateSiteSettings sends one UPDATE per
\* key; the keys in failed return an error, the others are stored.
handleSave(formData, failed) ==
  /\ site_settings' = [k \in SettingKeys |->
                         IF k \in failed THEN site_settings[k] ELSE formData[k]]
  /\ UNCHANGED <<now, localStorage, rate_limit_logs, intake, manager,
                 API_SECRET, siteSettings, limiter, proxy, bench>>

\* The proxy is redeployed with another LALAMOVE_API_SECRET.
RotateSecret ==
  /\ \E secret \in Secrets \ {API_SECRET} : API_SECRET' = secret
  /\ UNCHANGED <<now, localStorage, rate_limit_logs, intake, manager,
                 site_settings, siteSettings, limiter, proxy, bench>>

NextSettings ==
  \/ fetchSiteSettings
  \/ \E formData \in FormData, failed \in SUBSET SettingKeys :
       handleSave(formData, failed)
  \/ RotateSecret

SpecSettings == InitSettings /\ [][NextSettings]_vars

\* ------------------------------------------------ the two rate limiters

\* type ActionType.
ActionTypes == {"order_placement", "admin_action"}

\* The cooldowns a caller passes (the default is 30 seconds).
Cooldowns == {5, 30}

\* A boolean answer as the caller reads it.
Verdict(allowed) == IF allowed THEN "allowed" ELSE "denied"

\* Nothing has been submitted, recorded or checked yet.
InitLimiter == Init /\ lalamoveConfig = FALSE

\* One submission is fed to both enforcement points: in the browser
\* checkRateLimit and, when it allows, recordAction; in the database one
\* check_rate_limit call that no other call overlaps.
Submission(ip, actionType, cooldownSeconds) ==
  /\ submissions < MaxSubmissions
  /\ LET client == checkRateLimit(localStorage, ip, actionType,
                                  cooldownSeconds, now)
         server == check_rate_limit(rate_limit_logs,
                                    Cardinality(rate_limit_logs) + 1, ip,
                                    actionType, cooldownSeconds, now)
     IN  /\ localStorage' =
              IF client.allowed
                THEN recordAction(localStorage, ip, actionType,
                                  cooldownSeconds, now)
                ELSE localStorage
         /\ rate_limit_logs' = server.logs
         /\ verdicts' = [client |-> Verdict(client.allowed),
                         server |-> Verdict(server.allowed)]
  /\ submissions' = submissions + 1
  /\ UNCHANGED <<now, intake, manager, API_SECRET, site_settings,
                 siteSettings, rpcs, proxy, bench>>

NextLimiter ==
  \/ \E ip \in Idents, actionType \in ActionTypes, cooldownSeconds \in Cooldowns :
       Submission(ip, actionType, cooldownSeconds)
  \/ Tick

SpecLimiter == InitLimiter /\ [][NextLimiter]_vars

\* recordAction called in the browser (read, filter, push and save run
\* without a break: JavaScript does not interleave them).
RecordAction(ip, actionType, cooldownSeconds) ==
  /\ submissions < MaxSubmissions
  /\ localStorage' = recordAction(localStorage, ip, actionType,
                                  cooldownSeconds, now)
  /\ submissions' = submissions + 1
  /\ UNCHANGED <<now, rate_limit_logs, intake, manager, API_SECRET,
                 site_settings, siteSettings, rpcs, verdicts, proxy, bench>>

\* Connection r starts check_rate_limit: now() is fixed for the call and the
\* SELECT reads the rows committed so far.
BeginCheckRateLimit(r, p_ip_address, p_action_type, p_cooldown_seconds) ==
  /\ submissions < MaxSubmissions
  /\ rpcs[r].pc = "idle"
  /\ rpcs' = [rpcs EXCEPT ![r] =
       [pc |-> "selected", p_ip_address |-> p_ip_address,
        p_action_type |-> p_action_type,
        p_cooldown_seconds |-> p_cooldown_seconds, started |-> now,
        last_action_time |->
          SelectLastAction(rate_limit_logs, p_ip_address, p_action_type, now),
        returned |-> NULL_TEXT]]
  /\ submissions' = submissions + 1
  /\ UNCHANGED <<now, localStorage, rate_limit_logs, intake, manager,
                 API_SECRET, site_settings, siteSettings, verdicts, proxy, bench>>

\* Connection r finishes check_rate_limit: it decides on what its SELECT
\* read, inserts its row when it allows, returns and commits.
EndCheckRateLimit(r) ==
  /\ rpcs[r].pc = "selected"
  /\ LET c      == rpcs[r]
         result == DecideAndRecord(rate_limit_logs,
                                   Cardinality(rate_limit_logs) + 1,
                                   c.last_action_time, c.p_ip_address,
                                   c.p_action_type, c.p_cooldown_seconds,
                                   c.started)
     IN  /\ rate_limit_logs' = result.logs
         /\ rpcs' = [rpcs EXCEPT ![r] =
              [IdleRpc EXCEPT !.returned = Verdict(result.allowed)]]
  /\ UNCHANGED <<now, localStorage, intake, manager, API_SECRET,
                 site_settings, siteSettings, submissions, verdicts, proxy, bench>>

NextRpc ==
  \/ \E ip \in Idents, actionType \in ActionTypes, cooldownSeconds \in Cooldowns :
       RecordAction(ip, actionType, cooldownSeconds)
  \/ \E r \in Rpcs, ip \in Idents, actionType \in ActionTypes,
        cooldownSeconds \in Cooldowns :
       BeginCheckRateLimit(r, ip, actionType, cooldownSeconds)
  \/ \E r \in Rpcs : EndCheckRateLimit(r)
  \/ Tick

SpecRpc == InitLimiter /\ [][NextRpc]_vars

\* -------------------------------------------------------- delivery proxy

\* A property a JSON payload does not have.
UNDEFINED == "undefined"

\* payload[key] of a parsed JSON object.
Field(payload, key) ==
  IF key \in DOMAIN payload THEN payload[key] ELSE UNDEFINED

\* The HTTP methods a caller may use.
Methods == {"GET", "POST", "OPTIONS"}

\* url.pathname, split at its slashes: the function is deployed under
\* /functions/v1/lalamove.
Pathnames ==
  { <<"functions", "v1", "lalamove", "quote">>,
    <<"functions", "v1", "lalamove", "order">>,
    <<"functions", "v1", "lalamove">> }

\* pathname.endsWith('/' + segment).
EndsWith(pathname, segment) ==
  Len(pathname) > 0 /\ pathname[Len(pathname)] = segment

\* The body fetchDeliveryQuotation posts to /quote.
QuotePayload ==
  [deliveryAddress |-> "12 Rizal St", deliveryLat |-> "14.6", deliveryLng |-> "121.0",
   market |-> "PH", serviceType |-> "MOTORCYCLE", sandbox |-> "true",
   storeName |-> "Starrs", storePhone |-> "+639170000000",
   storeAddress |-> "1 Main St", storeLatitude |-> "14.5",
   storeLongitude |-> "121.1"]

\* The body createDeliveryOrder posts to /order.
OrderPayload ==
  [quotationId |-> "Q1", recipientName |-> "Ana",
   recipientPhone |-> "+639171234567", market |-> "PH", sandbox |-> "true",
   storeName |-> "Starrs", storePhone |-> "+639170000000",
   metadata |-> "order 1"]

\* The JSON bodies a caller may send: the two complete ones, and an order
\* body without its quotationId.
Payloads ==
  { QuotePayload, OrderPayload,
    [k \in DOMAIN OrderPayload \ {"quotationId"} |-> OrderPayload[k]] }

\* handleQuote / handleOrder: required.some((key) => payload[key] === undefined).
QuoteRequired ==
  {"deliveryAddress", "deliveryLat", "deliveryLng", "market", "serviceType",
   "sandbox", "storeName", "storePhone", "storeAddress", "storeLatitude",
   "storeLongitude"}

OrderRequired ==
  {"quotationId", "recipientName", "recipientPhone", "market", "sandbox",
   "storeName", "storePhone"}

MissingFields(payload, required) ==
  \E key \in required : Field(payload, key) = UNDEFINED

\* !API_KEY || !API_SECRET.
MissingCredentials ==
  \/ API_KEY = NULL_TEXT \/ API_KEY = ""
  \/ API_SECRET = NULL_TEXT \/ API_SECRET = ""

\* new Date().toISOString().
toISOString(t) == "T+" \o ToString(t) \o "ms"

\* signRequest: the timestamp is taken, and the HMAC-SHA256 of the canonical
\* message under the secret is computed.  The signature stands for the
\* base64 text of the digest: it is determined by the key and the message.
signRequest(method, path, body, secret, t) ==
  LET timestamp == toISOString(t)
  IN  [timestamp |-> timestamp,
       signature |-> [key |-> secret,
                      message |-> <<timestamp, method, path, body>>]]

\* The request makeLalamoveRequest puts on the wire: method, path, body and
\* the four headers.  signing is what signRequest returned for it, sent_at
\* the instant of the fetch, seq the position of the request among those
\* sent, which also numbers the randomUUID drawn.
makeLalamoveRequest(i, id, method, path, body, market, t) ==
  LET signing == signRequest(method, path, body, API_SECRET, t)
  IN  [invocation |-> i,
       seq |-> id,
       method |-> method,
       path |-> path,
       body |-> body,
       headers |->
         [Content_Type |-> "application/json",
          X_LLM_Market |-> market,
          Authorization |-> [scheme |-> "hmac", key |-> API_KEY,
                             signature |-> signing.signature],
          X_Request_Id |-> "srv-" \o ToString(id)],
       signing |-> signing,
       sent_at |-> t]

\* body ? JSON.stringify(body) : '' for a request without a body.
NoBody == [data |-> NULL_TEXT]

\* The body handleQuote posts to /quotations.
QuotationBody(payload) ==
  [data |-> [serviceType |-> payload.serviceType,
             stops |-> <<[lat |-> payload.storeLatitude,
                          lng |-> payload.storeLongitude,
                          displayString |-> payload.storeAddress],
                         [lat |-> payload.deliveryLat,
                          lng |-> payload.deliveryLng,
                          displayString |-> payload.deliveryAddress]>>]]

\* quotation.stops?.[k]?.id || ''.
StopId(quotation, k) ==
  IF k <= Len(quotation.stops) THEN quotation.stops[k].id ELSE ""

\* The body handleOrder posts to /orders once the quotation is re-fetched.
OrderBody(payload, quotation) ==
  [data |-> [quotationId |-> payload.quotationId,
             sender |-> [stopId |-> StopId(quotation, 1),
                         name |-> payload.storeName,
                         phone |-> payload.storePhone],
             recipients |-> <<[stopId |-> StopId(quotation, 2),
                               name |-> payload.recipientName,
                               phone |-> payload.recipientPhone,
                               remarks |-> ""]>>,
             isPODEnabled |-> TRUE,
             metadata |-> Field(payload, "metadata")]]

\* handler that looks at the path only.
Route_AnyMethod(method, pathname) ==
  IF MissingCredentials THEN "500"
  ELSE IF method = "OPTIONS" THEN "preflight"
  ELSE IF EndsWith(pathname, "quote") THEN "handleQuote"
  ELSE IF EndsWith(pathname, "order") THEN "handleOrder"
  ELSE "404"

\* handler: what it does with a request of this method and path.
Route(method, pathname) ==
  IF MissingCredentials THEN "500"
  ELSE IF method = "OPTIONS" THEN "preflight"
  ELSE IF method = "POST" /\ EndsWith(pathname, "quote") THEN "handleQuote"
  ELSE IF method = "POST" /\ EndsWith(pathname, "order") THEN "handleOrder"
  ELSE "404"

\* The proxy answers request i with this status.
Respond(inv, status) == [inv EXCEPT !.pc = "responded", !.status = status]

\* The proxy sends a request to the provider.
Send(i, method, path, body, market) ==
  outbox' = outbox \cup
    {makeLalamoveRequest(i, Cardinality(outbox) + 1, method, path, body,
                         market, now)}

\* handler, up to its answer or to the first request it sends to the
\* provider: the credentials check, the preflight, the dispatch on method
\* and path, and in the handler dispatched to the check of the payload.
handler(i, method, pathname, payload) ==
  /\ invocations[i].pc = "idle"
  /\ LET route == Route(method, pathname)
         inv   == [invocations[i] EXCEPT !.method = method,
                                         !.pathname = pathname,
                                         !.payload = payload,
                                         !.route = route]
     IN  CASE route = "500" ->
                /\ invocations' = [invocations EXCEPT ![i] = Respond(inv, 500)]
                /\ UNCHANGED outbox
           [] route = "preflight" ->
                /\ invocations' = [invocations EXCEPT ![i] = Respond(inv, 200)]
                /\ UNCHANGED outbox
           [] route = "404" ->
                /\ invocations' = [invocations EXCEPT ![i] = Respond(inv, 404)]
                /\ UNCHANGED outbox
           [] route = "handleQuote" ->
                IF MissingFields(payload, QuoteRequired)
                  THEN /\ invocations' =
                            [invocations EXCEPT ![i] = Respond(inv, 400)]
                       /\ UNCHANGED outbox
                  ELSE /\ invocations' =
                            [invocations EXCEPT ![i] =
                               [inv EXCEPT !.pc = "quotation_sent"]]
                       /\ Send(i, "POST", "/quotations",
                               QuotationBody(payload), payload.market)
           [] route = "handleOrder" ->
                IF MissingFields(payload, OrderRequired)
                  THEN /\ invocations' =
                            [invocations EXCEPT ![i] = Respond(inv, 400)]
                       /\ UNCHANGED outbox
                  ELSE /\ invocations' =
                            [invocations EXCEPT ![i] =
                               [inv EXCEPT !.pc = "refetch_sent"]]
                       /\ Send(i, "GET", "/quotations/" \o payload.quotationId,
                               NoBody, payload.market)
  /\ UNCHANGED <<now, localStorage, rate_limit_logs, intake, manager,
                 API_SECRET, site_settings, siteSettings, limiter, API_KEY, bench>>

\* The quotation the provider holds under this id: the two stops of the
\* quote request, each with the stop id the provider gave it.
Quotation(quotationId) ==
  [quotationId |-> quotationId,
   stops |-> <<[id |-> "stop-1-" \o quotationId],
               [id |-> "stop-2-" \o quotationId]>>]

\* handleQuote: the provider answers POST /quotations.  A 2xx answer is
\* mapped and answered with 200; any other makes makeLalamoveRequest throw,
\* which the server answers with 500.
handleQuoteAnswer(i, ok) ==
  /\ invocations[i].pc = "quotation_sent"
  /\ invocations' = [invocations EXCEPT ![i] =
       Respond(@, IF ok THEN 200 ELSE 500)]
  /\ UNCHANGED <<now, localStorage, rate_limit_logs, intake, manager,
                 API_SECRET, site_settings, siteSettings, limiter, API_KEY,
                 outbox, bench>>

\* handleOrder that sends the booking whatever the re-fetch answered,
\* without stop ids when it has none.
handleOrderQuotation_Unchecked(i, ok) ==
  /\ invocations[i].pc = "refetch_sent"
  /\ LET payload   == invocations[i].payload
         quotation == IF ok THEN Quotation(payload.quotationId)
                            ELSE [quotationId |-> payload.quotationId,
                                  stops |-> <<>>]
     IN  /\ invocations' = [invocations EXCEPT ![i] =
              [@ EXCEPT !.pc = "order_sent",
                        !.refetch = IF ok THEN "ok" ELSE "failed"]]
         /\ Send(i, "POST", "/orders", OrderBody(payload, quotation),
                 payload.market)
  /\ UNCHANGED <<now, localStorage, rate_limit_logs, intake, manager,
                 API_SECRET, site_settings, siteSettings, limiter, API_KEY, bench>>

\* handleOrder: the provider answers GET /quotations/{id}.  On a 2xx answer
\* the booking is built from the stop ids of the quotation and sent; any
\* other answer makes makeLalamoveRequest throw, and the server answers 500.
handleOrderQuotation(i, ok) ==
  /\ invocations[i].pc = "refetch_sent"
  /\ LET payload == invocations[i].payload
     IN  IF ok
           THEN /\ invocations' = [invocations EXCEPT ![i] =
                     [@ EXCEPT !.pc = "order_sent", !.refetch = "ok"]]
                /\ Send(i, "POST", "/orders",
                        OrderBody(payload, Quotation(payload.quotationId)),
                        payload.market)
           ELSE /\ invocations' = [invocations EXCEPT ![i] =
                     Respond([@ EXCEPT !.refetch = "failed"], 500)]
                /\ UNCHANGED outbox
  /\ UNCHANGED <<now, localStorage, rate_limit_logs, intake, manager,
                 API_SECRET, site_settings, siteSettings, limiter, API_KEY, bench>>

\* handleOrder: the provider answers POST /orders: 200 with the order, or
\* makeLalamoveRequest throws and the server answers 500.
handleOrderAnswer(i, ok) ==
  /\ invocations[i].pc = "order_sent"
  /\ invocations' = [invocations EXCEPT ![i] =
       Respond(@, IF ok THEN 200 ELSE 500)]
  /\ UNCHANGED <<now, localStorage, rate_limit_logs, intake, manager,
                 API_SECRET, site_settings, siteSettings, limiter, API_KEY,
                 outbox, bench>>

\* The proxy is deployed, with or without its key, and no request has
\* arrived yet.
InitProxy ==
  /\ now = 0
  /\ localStorage = {}
  /\ orders = {}
  /\ order_items = {}
  /\ rate_limit_logs = {}
  /\ lalamoveConfig = TRUE
  /\ calls = [s \in Subs |-> IdleCall]
  /\ bookings = {}
  /\ desk = NoRequest
  /\ mutationCount = 0
  /\ observers = [v \in Observers |-> MountedObserver({})]
  /\ API_SECRET = "sk_1"
  /\ site_settings = SeededSettings
  /\ siteSettings = NullSettings
  /\ rpcs = [r \in Rpcs |-> IdleRpc]
  /\ submissions = 0
  /\ verdicts = NoVerdicts
  /\ API_KEY \in {"pk_1", NULL_TEXT}
  /\ invocations = [i \in Invocations |-> IdleInvocation]
  /\ outbox = {}
  /\ allocation = IdleAllocation
  /\ contactNumber = <<>>
  /\ recipientPhone = NotSent

\* The proxy serves requests, each at its own pace, while time passes.
NextProxy ==
  \/ \E i \in Invocations, method \in Methods, pathname \in Pathnames,
        payload \in Payloads :
       handler(i, method, pathname, payload)
  \/ \E i \in Invocations, ok \in BOOLEAN : handleQuoteAnswer(i, ok)
  \/ \E i \in Invocations, ok \in BOOLEAN : handleOrderQuotation(i, ok)
  \/ \E i \in Invocations, ok \in BOOLEAN : handleOrderAnswer(i, ok)
  \/ Tick

SpecProxy == InitProxy /\ [][NextProxy]_vars

\* ------------------------------------------------- order number allocation

\* The numbers of orders a day can have seen when an order number is asked
\* for: none, a few, and the last ones an order number of four digits can
\* count.
DayCounts == {0, 1, 2, 9998, 9999}

\* The iterations of the WHILE loop that are followed before the call is
\* left to itself.
MaxIterations == 120

\* The database on a day on which n orders were placed, numbered 1 to n, and
\* no generate_order_number call is running.
InitNumbering ==
  /\ now = 0
  /\ localStorage = {}
  /\ \E n \in DayCounts :
       /\ orders = {PlacedOrder(k, "pending") : k \in 1..n}
       /\ order_items = UNION {OrderItemRows(k, <<Shake>>) : k \in 1..n}
  /\ rate_limit_logs = {}
  /\ lalamoveConfig = FALSE
  /\ calls = [s \in Subs |-> IdleCall]
  /\ bookings = {}
  /\ desk = NoRequest
  /\ mutationCount = 0
  /\ observers = [v \in Observers |-> MountedObserver({})]
  /\ API_SECRET = "sk_1"
  /\ site_settings = SeededSettings
  /\ siteSettings = NullSettings
  /\ rpcs = [r \in Rpcs |-> IdleRpc]
  /\ submissions = 0
  /\ verdicts = NoVerdicts
  /\ API_KEY = "pk_1"
  /\ invocations = [i \in Invocations |-> IdleInvocation]
  /\ outbox = {}
  /\ allocation = IdleAllocation
  /\ contactNumber = <<>>
  /\ recipientPhone = NotSent

\* generate_order_number up to its loop: SELECT COUNT(*) of today's orders,
\* and the first number proposed.
BeginGenerateOrderNumber ==
  /\ allocation.pc = "idle"
  /\ allocation' =
       [pc |-> "loop", order_count |-> Cardinality(orders),
        new_order_number |-> LPad(Cardinality(orders) + 1), iterations |-> 0]
  /\ UNCHANGED <<now, localStorage, rate_limit_logs, intake, manager,
                 API_SECRET, site_settings, siteSettings, limiter, proxy,
                 contactNumber, recipientPhone>>

\* One iteration of WHILE EXISTS (SELECT 1 FROM orders WHERE order_number =
\* new_order_number): the count is stepped and the next number is proposed.
LoopIteration ==
  /\ allocation.pc = "loop"
  /\ allocation.iterations < MaxIterations
  /\ \E o \in orders : o.order_number = allocation.new_order_number
  /\ allocation' =
       [allocation EXCEPT !.order_count = @ + 1,
                          !.new_order_number = LPad(allocation.order_count + 2),
                          !.iterations = @ + 1]
  /\ UNCHANGED <<now, localStorage, rate_limit_logs, intake, manager,
                 API_SECRET, site_settings, siteSettings, limiter, proxy,
                 contactNumber, recipientPhone>>

\* The loop condition is false: RETURN new_order_number.
ReturnOrderNumber ==
  /\ allocation.pc = "loop"
  /\ ~\E o \in orders : o.order_number = allocation.new_order_number
  /\ allocation' = [allocation EXCEPT !.pc = "returned"]
  /\ UNCHANGED <<now, localStorage, rate_limit_logs, intake, manager,
                 API_SECRET, site_settings, siteSettings, limiter, proxy,
                 contactNumber, recipientPhone>>

\* Another generate_order_number call is made.
NextGenerateOrderNumber ==
  /\ allocation.pc = "returned"
  /\ allocation' = IdleAllocation
  /\ UNCHANGED <<now, localStorage, rate_limit_logs, intake, manager,
                 API_SECRET, site_settings, siteSettings, limiter, proxy,
                 contactNumber, recipientPhone>>

NextNumbering ==
  \/ BeginGenerateOrderNumber
  \/ LoopIteration
  \/ ReturnOrderNumber
  \/ NextGenerateOrderNumber

SpecNumbering == InitNumbering /\ [][NextNumbering]_vars

\* ------------------------------------------------- recipient phone number

\* The longest contact number that is typed in.
MaxPhoneLen == 3

\* The characters of a contact number: digits, the plus sign, and the blank
\* and the dash that people separate groups of digits with.
PhoneChars == {"+", "0", "3", "6", "8", "9", " ", "-"}

\* \d of a regular expression, among the characters above.
DigitChars == {"0", "3", "6", "8", "9"}

\* The contact numbers a customer can submit: strings are sequences of
\* characters.
ContactNumbers == UNION {[1..n -> PhoneChars] : n \in 0..MaxPhoneLen}

\* The markets the lalamove_market setting is given: the seeded one and
\* another one.
PhoneMarkets == {"PH", "SG"}

RECURSIVE trimStart(_)
trimStart(s) == IF s # <<>> /\ Head(s) = " " THEN trimStart(Tail(s)) ELSE s

RECURSIVE trimEnd(_)
trimEnd(s) == IF s # <<>> /\ s[Len(s)] = " " THEN trimEnd(SubSeq(s, 1, Len(s) - 1)) ELSE s

\* String.prototype.trim.
trim(s) == trimEnd(trimStart(s))

\* String.prototype.startsWith.
startsWith(s, prefix) ==
  Len(s) >= Len(prefix) /\ SubSeq(s, 1, Len(prefix)) = prefix

\* String.prototype.slice(k).
slice(s, k) == SubSeq(s, k + 1, Len(s))

IsDigit(c) == c \in DigitChars

\* trimmed.replace(/\D/g, '').
digitsOf(s) == SelectSeq(s, IsDigit)

\* normalizePhoneNumber of useOrders.  Its undefined is the empty string
\* here: the only use of the result is `normalizePhoneNumber(contactNumber)
\* || contactNumber`, which treats the two alike, and no other branch returns
\* an empty string.
normalizePhoneNumber(phone) ==
  LET trimmed == trim(phone)
      digits  == digitsOf(trimmed)
      isPH    == \/ startsWith(digits, <<"6", "3">>)
                 \/ startsWith(digits, <<"0">>)
                 \/ startsWith(digits, <<"9">>)
  IN  IF phone = <<>> THEN <<>>
      ELSE IF trimmed = <<>> THEN <<>>
      ELSE IF startsWith(trimmed, <<"+">>) THEN trimmed
      ELSE IF digits = <<>> THEN <<>>
      ELSE IF isPH
        THEN IF startsWith(digits, <<"6", "3">>) THEN <<"+">> \o digits
             ELSE IF startsWith(digits, <<"0">>)
               THEN <<"+", "6", "3">> \o slice(digits, 1)
             ELSE <<"+", "6", "3">> \o digits
      ELSE <<"+">> \o digits

\* normalizePhoneNumber(contactNumber) || contactNumber.
normalizedRecipientPhone(phone) ==
  IF normalizePhoneNumber(phone) # <<>> THEN normalizePhoneNumber(phone) ELSE phone

\* A delivery order is about to be booked: the settings name a market and
\* make a Lalamove configuration, and createOrder was given a contact number.
InitPhone ==
  /\ now = 0
  /\ localStorage = {}
  /\ orders = {}
  /\ order_items = {}
  /\ rate_limit_logs = {}
  /\ lalamoveConfig = TRUE
  /\ calls = [s \in Subs |-> IdleCall]
  /\ bookings = {}
  /\ desk = NoRequest
  /\ mutationCount = 0
  /\ observers = [v \in Observers |-> MountedObserver({})]
  /\ API_SECRET = "sk_1"
  /\ \E market \in PhoneMarkets :
       /\ site_settings = [SeededSettings EXCEPT !.lalamove_market = market]
       /\ siteSettings = [SeededSettings EXCEPT !.lalamove_market = market]
  /\ rpcs = [r \in Rpcs |-> IdleRpc]
  /\ submissions = 0
  /\ verdicts = NoVerdicts
  /\ API_KEY = "pk_1"
  /\ invocations = [i \in Invocations |-> IdleInvocation]
  /\ outbox = {}
  /\ allocation = IdleAllocation
  /\ contactNumber \in ContactNumbers
  /\ recipientPhone = NotSent

\* createOrder on its way into the booking call: the recipient phone handed
\* to createDeliveryOrder, which puts it into the payload as it is.
SendRecipientPhone ==
  /\ lalamoveConfig
  /\ recipientPhone = NotSent
  /\ recipientPhone' = normalizedRecipientPhone(contactNumber)
  /\ UNCHANGED <<now, localStorage, rate_limit_logs, intake, manager,
                 API_SECRET, site_settings, siteSettings, limiter, proxy,
                 allocation, contactNumber>>

NextPhone == SendRecipientPhone

SpecPhone == InitPhone /\ [][NextPhone]_vars

\* ------------------------------------------------------------------ claims

\* The createOrder calls that hold an order number handed out by
\* generate_order_number.
HoldsNumber(s) == calls[s].orderNumber # NULL

\* C1: the order numbers handed out to concurrent createOrder calls on the
\* same day are pairwise distinct.
C1_HandedOutNumbersDistinct ==
  \A s1, s2 \in Subs :
    (s1 # s2 /\ HoldsNumber(s1) /\ HoldsNumber(s2))
      => calls[s1].orderNumber # calls[s2].orderNumber

\* C2: two createOrder calls of the same identity never both persist an
\* order within one cooldown window.
C2_OneOrderPerIdentityPerWindow ==
  \A o1, o2 \in orders :
    (o1.id # o2.id /\ o1.customer_ip = o2.customer_ip)
      => \/ o2.created_at >= o1.created_at + OrderCooldownSeconds * MsPerSecond
         \/ o1.created_at >= o2.created_at + OrderCooldownSeconds * MsPerSecond

\* C3: no order that a query can see has zero order items.
C3_NoVisibleOrderWithoutItems ==
  \A o \in SelectOrders : o.order_items # {}

\* C4: when createOrder has thrown, neither an order row nor an order item
\* of that call is persisted.
C4_ThrownPersistsNothing ==
  \A s \in Subs :
    calls[s].pc = "thrown"
      => /\ ~\E o \in orders : o.id = s
         /\ ~\E i \in order_items : i.order_id = s

\* The order row and the order items of the createOrder call s.
OrderOf(s) == {o \in orders : o.id = s}
ItemsOf(s) == {i \in order_items : i.order_id = s}

\* C5: when the booking call of a createOrder fails, the order and its items
\* stay persisted, the status stays pending, the booking columns stay null,
\* the failure is logged, and it is not thrown: createOrder goes on to record
\* the action and re-fetch the order, and only a failing re-fetch makes it throw.
C5_BookingFailureIsolated ==
  \A s \in Subs :
    calls[s].bookingFailed
      => /\ \E o \in OrderOf(s) :
              /\ o.status = "pending"
              /\ o.lalamove_order_id = NULL_TEXT
              /\ o.lalamove_status = NULL_TEXT
              /\ o.lalamove_tracking_url = NULL_TEXT
         /\ ItemsOf(s) # {}
         /\ "Failed to create Lalamove order" \in calls[s].log
         /\ calls[s].pc \in {"fetch", "returned", "thrown"}
         /\ calls[s].pc = "thrown" => calls[s].error = "fetchError"

\* C5 witness: a createOrder whose booking call failed has returned its order.
C5_Witness ==
  \E s \in Subs :
    /\ calls[s].bookingFailed
    /\ calls[s].pc = "returned"
    /\ \E o \in OrderOf(s) : o.lalamove_order_id = NULL_TEXT /\ o.status = "pending"

\* An entry recorded with the cooldown of createOrder whose window
\* [timestamp, timestamp + cooldown) holds the instant t.
InCooldownWindow(entry, t) ==
  /\ entry.timestamp <= t
  /\ t < entry.timestamp + OrderCooldownSeconds * MsPerSecond

\* What a denied check reports: more than 0 and at most the cooldown.
RemainingInRange(r) == 0 < r /\ r <= OrderCooldownSeconds

\* C6 (state part): while the window of a recorded entry lasts, checkRateLimit
\* for its pair denies, with a remaining value in 1..cooldown.
C6_CheckDeniesInsideWindow ==
  \A entry \in localStorage :
    InCooldownWindow(entry, now)
      => LET r == checkRateLimit(localStorage, entry.ip, entry.actionType,
                                 OrderCooldownSeconds, now)
         IN  ~r.allowed /\ RemainingInRange(r.cooldownRemaining)

\* C6 (step part): a createOrder that starts inside the window of an entry
\* recorded for its identity is rejected with a remaining value in 1..cooldown.
C6_SubmitInsideWindowRejected ==
  \A s \in Subs :
    ( /\ calls[s].pc = "idle"
      /\ calls'[s].pc # "idle"
      /\ \E entry \in localStorage :
           /\ entry.ip = calls'[s].clientIP
           /\ entry.actionType = "order_placement"
           /\ InCooldownWindow(entry, now) )
      => /\ calls'[s].pc = "thrown"
         /\ calls'[s].error = "Rate limit exceeded"
         /\ RemainingInRange(calls'[s].cooldownRemaining)

\* C6: after an admitted submission was recorded at t with cooldown c, every
\* check of the pair at t' with t <= t' < t + c denies with 0 < remaining <= c,
\* so a second createOrder of that identity inside the window is rejected.
C6_CooldownDenies ==
  [] C6_CheckDeniesInsideWindow /\ [][C6_SubmitInsideWindowRejected]_vars

\* C6 witness: a createOrder rejected 5 s after a 30 s record, remaining 25.
C6_Witness ==
  /\ now = 5000
  /\ \E s \in Subs :
       /\ calls[s].pc = "thrown"
       /\ calls[s].cooldownRemaining = 25
       /\ \E entry \in localStorage :
            entry.ip = calls[s].clientIP /\ entry.timestamp = 0

\* C7: every persisted order was admitted by the server-side check, which
\* recorded a rate_limit_logs row for its identity no later than the insert.
C7_PersistedOnlyIfServerAdmitted ==
  \A o \in orders :
    \E l \in rate_limit_logs :
      /\ l.ip_address = o.customer_ip
      /\ l.action_type = "order_placement"
      /\ l.timestamp <= o.created_at

\* Sum of total_price over a set of order_items rows.
RECURSIVE SumTotalPrice(_)
SumTotalPrice(items) ==
  IF items = {} THEN 0
  ELSE LET i == CHOOSE x \in items : TRUE
       IN  i.total_price + SumTotalPrice(items \ {i})

\* C8: every order read back with its items has
\* total = sum of the items' total_price + delivery_fee (0 when null).
C8_TotalIsItemsPlusFee ==
  \A o \in SelectOrders :
    o.total = SumTotalPrice(o.order_items)
              + (IF o.delivery_fee = NULL THEN 0 ELSE o.delivery_fee)

\* C9: completed_at is non-null exactly when the status is completed.
C9_CompletedAtIffCompleted ==
  \A o \in orders : (o.completed_at # NULL) <=> (o.status = "completed")

\* C9 witness: a booked order is completed and carries a completion time
\* while another order, updated as well, is not and carries none.
C9_Witness ==
  \E o1, o2 \in orders :
    /\ o1.status = "completed" /\ o1.completed_at # NULL
    /\ o1.lalamove_order_id # NULL_TEXT
    /\ o2.status = "cancelled" /\ o2.completed_at = NULL

\* C10 (step): a cancelled order stays cancelled, and a completed order does
\* not become cancelled.
C10_TerminalStep ==
  \A o \in orders : \A p \in orders' :
    p.id = o.id
      => /\ o.status = "cancelled" => p.status = "cancelled"
         /\ o.status = "completed" => p.status # "cancelled"

\* C10: completed and cancelled are terminal under updateOrderStatus and
\* bulkUpdateStatus.
C10_TerminalStatuses == [][C10_TerminalStep]_vars

\* The statuses from which an order can still move on.
NonTerminal ==
  {"pending", "confirmed", "preparing", "ready", "out_for_delivery"}

\* C11 (request): updateOrderStatus(id, cancelled) can be made for every
\* order in a non-terminal status.
C11_CancelEnabled ==
  \A o \in orders :
    o.status \in NonTerminal => ENABLED updateOrderStatus(o.id, "cancelled")

\* C11 (outcome): an updateOrderStatus(id, cancelled) that the database
\* executed on an order in a non-terminal status resolved, and the order is
\* cancelled.
C11_CancelOutcome ==
  ( /\ desk.op = "updateOrderStatus"
    /\ desk.status = "cancelled"
    /\ desk.failing = {} )
    => \A b \in desk.before :
         b.status \in NonTerminal
           => /\ desk.outcome = "resolved"
              /\ \E o \in orders : o.id = b.id /\ o.status = "cancelled"

\* C11: from every non-terminal status, updateOrderStatus(id, cancelled)
\* succeeds and leaves the order in status cancelled.
C11_CancelFromNonTerminal == C11_CancelEnabled /\ C11_CancelOutcome

\* C11 witness: an order that was out for delivery has been cancelled by
\* updateOrderStatus.
C11_Witness ==
  /\ desk.op = "updateOrderStatus"
  /\ desk.status = "cancelled"
  /\ desk.outcome = "resolved"
  /\ \E b \in desk.before :
       /\ b.status = "out_for_delivery"
       /\ \E o \in orders : o.id = b.id /\ o.status = "cancelled"

\* C12: bulkUpdateStatus applies the status per order: when the update of
\* some orders of the batch fails, every other order of the batch has the
\* target status, and every order of the batch is either fully updated
\* (status, updated_at, completed_at) or exactly as it was.
C12_BulkIndependentPerOrder ==
  desk.op = "bulkUpdateStatus"
    => /\ \A o \in orders :
            o.id \in desk.ids \ desk.failing => o.status = desk.status
       /\ \A o \in orders :
            o.id \in desk.failing
              => \E b \in desk.before : b.id = o.id /\ b.status = o.status

\* Hook v has nothing left to do: no event waits, no query is in flight.
Quiescent(v) ==
  /\ observers[v].pending = 0
  /\ observers[v].sent = 0
  /\ observers[v].answers = {}

\* C13: every subscribed hook is notified of every committed change and
\* re-fetches, so that once its events are handled and its fetches are
\* over (none of them having failed) the list it shows is the persisted
\* orders: no late answer of an older fetch leaves it stale.
C13_ViewCurrentWhenQuiet ==
  \A v \in Observers :
    (Quiescent(v) /\ ~observers[v].failed) => observers[v].orders = SelectOrders

\* C14: for each order at most one booking request is ever attempted:
\* createOrder calls createDeliveryOrder at most once, the provider holds at
\* most one delivery order for it, and a call that has received the answer
\* to its booking request (success or error) is past the booking step for good.
C14_AtMostOneBookingRequest ==
  \A s \in Subs :
    /\ calls[s].bookingRequests <= 1
    /\ Cardinality({b \in bookings :
                      b.orderId = DeliveryOrderResult(s).orderId}) <= 1
    /\ (calls[s].bookingFailed \/ calls[s].pc = "save_booking")
         => calls[s].bookingRequests = 1 /\ calls[s].pc # "book"

\* C14 witness: a createOrder whose one booking request was answered with
\* an error has returned without a second request.
C14_Witness ==
  \E s \in Subs :
    /\ calls[s].pc = "returned"
    /\ calls[s].bookingFailed
    /\ calls[s].bookingRequests = 1
    /\ ~\E b \in bookings : b.orderId = DeliveryOrderResult(s).orderId

\* The orders that carry a booking id.
BookedOrders == {o \in orders : o.lalamove_order_id # NULL_TEXT}

\* C15: a quotation is consumed by at most one booking: the provider holds
\* at most one delivery order per quotation id, every booking id written to
\* an order is that of a delivery order the provider created from the
\* order's quotation, so no two orders carry a booking of the same
\* quotation, and a booking call made after the quotation was consumed ends
\* in an error.
C15_QuoteBookedAtMostOnce ==
  /\ \A b1, b2 \in bookings :
       b1.quotationId = b2.quotationId => b1 = b2
  /\ \A o \in BookedOrders :
       [quotationId |-> o.lalamove_quotation_id,
        orderId |-> o.lalamove_order_id] \in bookings
  /\ \A o1, o2 \in BookedOrders :
       o1.lalamove_quotation_id = o2.lalamove_quotation_id => o1.id = o2.id
  /\ \A s \in Subs :
       calls[s].pc = "save_booking"
         => [quotationId |-> calls[s].args.lalamoveQuotationId,
             orderId |-> calls[s].lalamoveOrderResult.orderId] \in bookings

\* C15 witness: two delivery orders were submitted with the same quotation;
\* the booking of one succeeded and is written to it, the booking call of
\* the other ended in an error and wrote nothing.
C15_Witness ==
  \E s1, s2 \in Subs :
    /\ s1 # s2
    /\ \E o1 \in OrderOf(s1), o2 \in OrderOf(s2) :
         /\ o1.lalamove_quotation_id = o2.lalamove_quotation_id
         /\ o1.lalamove_order_id # NULL_TEXT
         /\ o2.lalamove_order_id = NULL_TEXT
    /\ calls[s2].bookingFailed
    /\ calls[s2].pc = "returned"
    /\ Cardinality(bookings) = 1

\* C16 (step): a createOrder that sends a booking request does so before
\* the expiresAt of its quotation.
C16_BookStep ==
  \A s \in Subs :
    (calls[s].pc # "book" /\ calls'[s].pc = "book")
      => now < expiresAt(calls'[s].args.lalamoveQuotationId)

\* C16: createOrder invokes the booking operation only with a quotation
\* whose expiresAt has not passed at the time of the call.
C16_NoStaleQuoteBooked == [][C16_BookStep]_vars

\* C17: the visitor's browser never holds the provider's shared secret: the
\* secret the proxy signs with is not in the siteSettings state.
C17_SecretNotInBrowser ==
  siteSettings.lalamove_api_secret # API_SECRET

\* C18: no two persisted orders share an order_number, whatever the
\* interleaving of the createOrder calls, and a createOrder whose insert was
\* rejected for a duplicate number has persisted neither an order nor an item.
C18_OrderNumbersUnique ==
  /\ \A o1, o2 \in orders :
       o1.order_number = o2.order_number => o1.id = o2.id
  /\ \A s \in Subs :
       calls[s].error = "orderError: duplicate order_number"
         => OrderOf(s) = {} /\ ItemsOf(s) = {}

\* C18 witness: of two concurrent createOrder calls that were handed the
\* same number, one has its order persisted and the other was rejected.
C18_Witness ==
  \E s1, s2 \in Subs :
    /\ calls[s1].error = "orderError: duplicate order_number"
    /\ OrderOf(s1) = {}
    /\ \E o \in OrderOf(s2) : o.order_number = 1
    /\ Cardinality(orders) = 1

\* The entries of the browser store, and the rows of rate_limit_logs, that
\* have not expired.
ActiveEntries(ip, actionType) ==
  {entry \in localStorage :
     entry.ip = ip /\ entry.actionType = actionType /\ entry.expiresAt > now}

ActiveRows(ip, actionType) ==
  {l \in rate_limit_logs :
     l.ip_address = ip /\ l.action_type = actionType /\ l.expires_at > now}

\* C19: in each rate-limit store at most one entry that has not expired
\* exists per (identity, action kind), also when recordings for the same
\* pair interleave.
C19_OneActiveEntryPerPair ==
  \A ip \in Idents, actionType \in ActionTypes :
    /\ Cardinality(ActiveEntries(ip, actionType)) <= 1
    /\ Cardinality(ActiveRows(ip, actionType)) <= 1

\* C20: fed the same submissions, the browser-side check and the
\* server-side check_rate_limit give the same answer to each of them.
C20_SameVerdicts == verdicts.client = verdicts.server

\* What createOrder captured of an order at submission: every column other
\* than the status, the two timestamps the triggers maintain and the three
\* booking columns.
Captured(o) ==
  [id |-> o.id, order_number |-> o.order_number,
   service_type |-> o.service_type, total |-> o.total,
   delivery_fee |-> o.delivery_fee,
   lalamove_quotation_id |-> o.lalamove_quotation_id,
   customer_ip |-> o.customer_ip, created_at |-> o.created_at]

\* C21 (step): every order stays in the table with what was captured at
\* submission, and every order item stays in the table as it is.
C21_FrameStep ==
  /\ \A o \in orders : \E p \in orders' : Captured(p) = Captured(o)
  /\ order_items \subseteq order_items'

\* C21: no operation after creation deletes an order or modifies or deletes
\* an order item; of an order only the status, completed_at, updated_at and
\* the booking columns ever change.
C21_CreatedOrdersKept == [][C21_FrameStep]_vars

\* C21 witness: an order that was booked and then cancelled is still in the
\* table with its total and both of its items.
C21_Witness ==
  \E o \in orders :
    /\ o.status = "cancelled"
    /\ o.lalamove_order_id # NULL_TEXT
    /\ o.total = 370
    /\ ItemsOf(o.id) = OrderItemRows(o.id, <<Shake, Fries>>)

\* The requests the proxy has sent to the provider while serving request i.
ProviderCalls(i) == {q \in outbox : q.invocation = i}

\* Request i was handed to handleQuote or to handleOrder.
Dispatched(i) == invocations[i].route \in {"handleQuote", "handleOrder"}

\* Request i is a POST whose path ends in /quote or /order.
PostToEndpoint(i) ==
  /\ invocations[i].method = "POST"
  /\ \/ EndsWith(invocations[i].pathname, "quote")
     \/ EndsWith(invocations[i].pathname, "order")

\* C22 as stated, of a proxy that holds its credentials: every request
\* whose method is not POST is answered with 404 and no provider call is
\* made for it; only POST requests whose path ends in /quote or /order are
\* dispatched to a handler.
C22_NonPostAnswered404 ==
  \A i \in Invocations :
    (invocations[i].pc # "idle" /\ ~MissingCredentials)
      => /\ invocations[i].method # "POST"
              => invocations[i].status = 404 /\ ProviderCalls(i) = {}
         /\ Dispatched(i) => PostToEndpoint(i)

\* C22 as amended: a request whose method is not POST is never dispatched
\* and causes no provider call; it is answered with 500 when the proxy lacks
\* its credentials, otherwise with 200 when it is the OPTIONS preflight and
\* with 404 for any other method.  Only POST requests whose path ends in
\* /quote or /order are dispatched, and only dispatched requests cause
\* provider calls.
C22_NonPostNeverDispatched ==
  \A i \in Invocations :
    invocations[i].pc # "idle"
      => /\ invocations[i].method # "POST"
              => /\ ProviderCalls(i) = {}
                 /\ ~Dispatched(i)
                 /\ invocations[i].status =
                      IF MissingCredentials THEN 500
                      ELSE IF invocations[i].method = "OPTIONS" THEN 200
                      ELSE 404
         /\ Dispatched(i) => PostToEndpoint(i)
         /\ ProviderCalls(i) # {} => Dispatched(i)

\* C22 witness: a GET to /order was answered with 404 and caused no provider
\* call, while a POST to /order was dispatched and reached the provider.
C22_Witness ==
  \E i, j \in Invocations :
    /\ invocations[i].method = "GET"
    /\ EndsWith(invocations[i].pathname, "order")
    /\ invocations[i].status = 404
    /\ ProviderCalls(i) = {}
    /\ invocations[j].method = "POST"
    /\ Dispatched(j)
    /\ ProviderCalls(j) # {}

\* The texts a request carries in its headers next to the signature.
HeaderTexts(q) ==
  {q.headers.Content_Type, q.headers.X_LLM_Market, q.headers.X_Request_Id,
   q.headers.Authorization.scheme, q.headers.Authorization.key}

\* C25: every request sent to the provider was signed, with the proxy's
\* secret, over a timestamp taken at send time, its method, its path and its
\* body, and carries that timestamp, so that the provider can recompute the
\* signature; it carries the Authorization header built from the public key
\* and that signature, the market header and a correlation id of its own.
C25_RequestCarriesSignedTimestamp ==
  \A q \in outbox :
    /\ q.signing.timestamp = toISOString(q.sent_at)
    /\ q.headers.Authorization.signature =
         [key |-> API_SECRET,
          message |-> <<q.signing.timestamp, q.method, q.path, q.body>>]
    /\ q.headers.Authorization.key = API_KEY
    /\ q.headers.X_LLM_Market = invocations[q.invocation].payload.market
    /\ \A r \in outbox : r.headers.X_Request_Id = q.headers.X_Request_Id => r = q
    /\ q.signing.timestamp \in HeaderTexts(q)

\* The booking requests (POST /orders) and the re-fetches of the quotation
\* (GET /quotations/{id}) the proxy has sent while serving request i.
BookingRequests(i) ==
  {q \in ProviderCalls(i) : q.method = "POST" /\ q.path = "/orders"}

Refetches(i) ==
  {q \in ProviderCalls(i) :
     /\ q.method = "GET"
     /\ q.path = "/quotations/" \o invocations[i].payload.quotationId}

C23_BookingWaitEnds ==
  \A s \in Subs :
    (calls[s].pc = "book") ~> (calls[s].pc \in {"returned", "thrown"})


\* C24: generate_order_number makes at most a bounded number of retries (50)
\* before it gives up: no call is ever in its loop with more than 50
\* iterations behind it.
C24_RetriesBounded == allocation.iterations <= 50


\* The country calling code of a market.
CallingCode(market) == IF market = "SG" THEN <<"6", "5">> ELSE <<"6", "3">>

\* A local-format number: digits only, and at least one.
LocalFormat(phone) == phone # <<>> /\ digitsOf(phone) = phone

\* A leading + followed by the calling code of the market and digits only.
InternationalFormat(phone, market) ==
  /\ startsWith(phone, <<"+">> \o CallingCode(market))
  /\ digitsOf(slice(phone, 1)) = slice(phone, 1)

\* C27: the recipient phone number sent in a booking request is in
\* international format: a local-format contact number goes out as a +, the
\* calling code of the configured market, and digits only.
C27_RecipientPhoneInternational ==
  (recipientPhone # NotSent /\ LocalFormat(contactNumber))
    => InternationalFormat(recipientPhone, siteSettings.lalamove_market)


\* The entries of a pair in the browser store and its rows in rate_limit_logs.
ClientEntries(ip, actionType) ==
  {e \in localStorage : e.ip = ip /\ e.actionType = actionType}

ServerRows(ip, actionType) ==
  {l \in rate_limit_logs : l.ip_address = ip /\ l.action_type = actionType}

\* The clock shows the expiry instant of the pair's current (latest) entry.
ClientTie(ip, actionType) ==
  \E e \in ClientEntries(ip, actionType) :
    /\ e.expiresAt = now
    /\ \A f \in ClientEntries(ip, actionType) : f.timestamp <= e.timestamp

ServerTie(ip, actionType) ==
  \E l \in ServerRows(ip, actionType) :
    /\ l.expires_at = now
    /\ \A k \in ServerRows(ip, actionType) : k.timestamp <= l.timestamp

C28_TieDeniedStep ==
  \A ip \in Idents, actionType \in ActionTypes, cooldownSeconds \in Cooldowns :
    Submission(ip, actionType, cooldownSeconds) =>
      /\ ClientTie(ip, actionType) => verdicts'.client = "denied"
      /\ ServerTie(ip, actionType) => verdicts'.server = "denied"

C28_TieAllowedStep ==
  \A ip \in Idents, actionType \in ActionTypes, cooldownSeconds \in Cooldowns :
    Submission(ip, actionType, cooldownSeconds) =>
      /\ ClientTie(ip, actionType) => verdicts'.client = "allowed"
      /\ ServerTie(ip, actionType) => verdicts'.server = "allowed"
      /\ verdicts'.client = "denied" =>
           \E e \in ClientEntries(ip, actionType) : now < e.expiresAt
      /\ verdicts'.server = "denied" =>
           \E l \in ServerRows(ip, actionType) : now < l.expires_at

RecordedSince(s, t) ==
  \/ \E e \in localStorage :
       /\ e.ip = calls[s].clientIP
       /\ e.actionType = "order_placement"
       /\ e.timestamp >= t
  \/ now >= t + OrderCooldownSeconds * MsPerSecond

\* C29: every order row createOrder persists is accompanied by a recorded
\* cooldown entry of the submitting identity: once a createOrder call that
\* inserted its order row has returned or thrown, recordAction has been
\* applied for (identity, order_placement).
C29_PersistedOrderRecorded ==
  \A s \in Subs :
    calls[s].pc \in {"returned", "thrown"}
      => \A o \in OrderOf(s) : RecordedSince(s, o.created_at)


\* One of the booking columns of the order is set.
HasBookingFields(o) ==
  \/ o.lalamove_order_id # NULL_TEXT
  \/ o.lalamove_status # NULL_TEXT
  \/ o.lalamove_tracking_url # NULL_TEXT

\* C30: an order has non-null booking fields only if it is a delivery order
\* created with a quotation id, its items were persisted, and the one booking
\* call made for it returned successfully (the provider holds the delivery
\* order the fields name); a booking call is made for delivery orders with a
\* quotation only, never for a dine-in or a pickup submission.
C30_BookingFieldsOnlyWhenBooked ==
  /\ \A o \in orders :
       HasBookingFields(o)
         => /\ o.service_type = "delivery"
            /\ o.lalamove_quotation_id # NULL_TEXT
            /\ ItemsOf(o.id) # {}
            /\ calls[o.id].bookingRequests = 1
            /\ ~calls[o.id].bookingFailed
            /\ [quotationId |-> o.lalamove_quotation_id,
                orderId |-> o.lalamove_order_id] \in bookings
            /\ o.lalamove_status = DeliveryOrderResult(o.id).status
            /\ o.lalamove_tracking_url = DeliveryOrderResult(o.id).shareLink
  /\ \A s \in Subs :
       calls[s].bookingRequests > 0
         => /\ OrderOf(s) # {}
            /\ \A o \in OrderOf(s) :
                 /\ o.service_type = "delivery"
                 /\ o.lalamove_quotation_id # NULL_TEXT

\* A delivery order carries its booking next to a finished pickup submission
\* that named a quotation and for which no booking call was made.
C30_Witness ==
  /\ \E o \in orders : HasBookingFields(o) /\ o.service_type = "delivery"
  /\ \E o \in orders :
       /\ o.service_type = "pickup"
       /\ o.lalamove_quotation_id # NULL_TEXT
       /\ ~HasBookingFields(o)
       /\ calls[o.id].pc = "returned"
       /\ calls[o.id].bookingRequests = 0

====
